---------------------------- MODULE Spec2Model ----------------------------
(***************************************************************************)
(* A model of the Kokoro TTS server (src/app.py): the Socket.IO session    *)
(* registry, the tts handler, the per-session worker thread process_queue, *)
(* the sentence batching it performs, and the HTTP endpoint POST /tts.     *)
(*                                                                         *)
(* Text is a sequence of one-character strings, so that split, strip and   *)
(* len are computed on characters as Python computes them.                 *)
(***************************************************************************)
EXTENDS Integers, Sequences, FiniteSets, Bags, TLC

VARIABLES
    VOICES,           \* app.py:33-44   names of the voices loaded at startup
    conn,             \* Socket.IO transport: "new" | "open" | "closed" per sid
    active_sessions,  \* app.py:50      keys of the registry dict
    session,          \* app.py:66-70   the session dict object of each sid
    tts_threads,      \* in-flight handle_tts invocations (a bag of positions)
    workers,          \* threads running process_queue (a bag of records)
    emitted,          \* events emitted (socketio.emit / emit) by the last step
    last,             \* the operation the last step ran, with its input
    dequeued,         \* history: the texts being processed, in dequeue order
    b_text,           \* batching: the text being batched
    b_sentences,      \* batching: sentences not yet visited (app.py:136)
    b_acc,            \* batching: batched_sentences and current_batch
    b_pc,             \* batching: position in app.py:133-144
    http_req,         \* POST /tts: the JSON body of the request
    http_locals,      \* POST /tts: the locals text, chunks and voice_name
    http_resp,        \* POST /tts: the response
    http_pc,          \* POST /tts: position in app.py:220-296
    c_main,           \* client: what the main thread has done with the TTSClient
    is_playing,       \* client: tts_client.py:15  self.is_playing
    audio_queue,      \* client: tts_client.py:14  self.audio_queue
    player_pc,        \* client: position of audio_player_thread (71-103)
    frames,           \* client: blocks of frames left in the WAV being played
    p_terminated      \* client: self.p.terminate() has been called (40)

vars == <<VOICES, conn, active_sessions, session, tts_threads, workers,
          emitted, last, dequeued, b_text, b_sentences, b_acc, b_pc,
          http_req, http_locals, http_resp, http_pc,
          c_main, is_playing, audio_queue, player_pc, frames, p_terminated>>

server_vars == <<VOICES, conn, active_sessions, session, tts_threads, workers,
                 emitted, last, dequeued>>
batch_vars == <<b_text, b_sentences, b_acc, b_pc>>
http_vars == <<http_req, http_locals, http_resp, http_pc>>
client_vars == <<c_main, is_playing, audio_queue, player_pc, frames, p_terminated>>

(***************************************************************************)
(* Program constants.                                                      *)
(***************************************************************************)
\* Voice identifiers are character sequences: app.py:159 takes voice[0].
DEFAULT_VOICE == <<"a", "f">>
MAX_TEXT_LENGTH == 500
CHUNK_SIZE == 150
BATCH_LIMIT == 150
WAV_HEADER_LEN == 44
MIN_FILE_SIZE == 1024

(***************************************************************************)
(* Bounds of the model.                                                    *)
(***************************************************************************)
MaxQueue == 2
MaxThreads == 2
MaxPieces == 3
MaxAudio == 2

(***************************************************************************)
(* Strings.                                                                *)
(***************************************************************************)
\* c * n: the character c repeated n times.
RECURSIVE Rep(_, _)
Rep(c, n) ==
    IF n = 0 THEN <<>>
    ELSE IF n % 2 = 0 THEN LET half == Rep(c, n \div 2) IN half \o half
    ELSE <<c>> \o Rep(c, n - 1)

Whitespace == {" ", "\t", "\n"}

\* The position of the first c in s, Len(s) + 1 when there is none.
find(s, c) ==
    CHOOSE i \in 1..(Len(s) + 1) :
        /\ i = Len(s) + 1 \/ s[i] = c
        /\ \A j \in 1..(i - 1) : s[j] # c

\* The number of whitespace characters s starts with, and ends with.
leading(s) ==
    CHOOSE k \in 0..Len(s) :
        /\ k = Len(s) \/ s[k + 1] \notin Whitespace
        /\ \A j \in 1..k : s[j] \in Whitespace

trailing(s) ==
    CHOOSE k \in 0..Len(s) :
        /\ k = Len(s) \/ s[Len(s) - k] \notin Whitespace
        /\ \A j \in 1..k : s[Len(s) - j + 1] \in Whitespace

\* str.strip(): leading and trailing whitespace removed.
strip(text) ==
    CHOOSE stripped \in
        { SubSeq(s, leading(s) + 1, Len(s) - trailing(s)) : s \in {text} } : TRUE

\* The operators below that use an argument many times bind its value to a
\* name (x \in {arg}) first, so that an argument that is itself the result of
\* a computation is computed once.

\* str.split('.'): the pieces between the periods, empty pieces included.
RECURSIVE split(_)
split(text) ==
    CHOOSE pieces \in
        { IF k > Len(s) THEN <<s>>
          ELSE <<SubSeq(s, 1, k - 1)>> \o split(SubSeq(s, k + 1, Len(s)))
          : s \in {text}, k \in {find(text, ".")} } : TRUE

\* [x for x in seq if keep(x)], for the predicate "x is not empty".
RECURSIVE NonEmpty(_)
NonEmpty(seq) ==
    CHOOSE kept \in
        { IF xs = <<>> THEN <<>>
          ELSE (IF Head(xs) # <<>> THEN <<Head(xs)>> ELSE <<>>) \o NonEmpty(Tail(xs))
          : xs \in {seq} } : TRUE

Map_strip(seq) ==
    CHOOSE stripped \in { [i \in 1..Len(xs) |-> strip(xs[i])] : xs \in {seq} } : TRUE

(***************************************************************************)
(* Sentence batching, app.py:133-144.                                      *)
(***************************************************************************)
\* app.py:133  sentences = [s.strip() for s in text.split('.') if s.strip()]
sentences_of(text) == NonEmpty(Map_strip(split(text)))

\* app.py:134-135
batch_init == [batched |-> <<>>, current |-> <<>>]

\* batch_step forgetting to append the full batch before starting the next.
batch_step_drop(acc, sentence) ==
    IF Len(acc.current) + Len(sentence) < BATCH_LIMIT
    THEN [acc EXCEPT !.current = @ \o sentence \o <<".", " ">>]
    ELSE [batched |-> acc.batched,
          current |-> sentence \o <<".", " ">>]

\* app.py:137-142, one iteration of the loop over the sentences
batch_step(acc, sentence) ==
    IF Len(acc.current) + Len(sentence) < BATCH_LIMIT
    THEN [acc EXCEPT !.current = @ \o sentence \o <<".", " ">>]
    ELSE [batched |-> IF acc.current # <<>>
                      THEN Append(acc.batched, acc.current)
                      ELSE acc.batched,
          current |-> sentence \o <<".", " ">>]

\* batch_flush forgetting the trailing partial batch.
batch_flush_none(acc) == acc.batched

\* app.py:143-144
batch_flush(acc) ==
    IF acc.current # <<>> THEN Append(acc.batched, acc.current) ELSE acc.batched

RECURSIVE batch_loop(_, _)
batch_loop(acc, sentences) ==
    CHOOSE result \in
        { IF ss = <<>> THEN a
          ELSE batch_loop(batch_step(a, Head(ss)), Tail(ss))
          : a \in {acc}, ss \in {sentences} } : TRUE

\* app.py:133-144 as a whole: batched_sentences for a dequeued text
batched_sentences(text) ==
    CHOOSE batched \in
        { batch_flush(acc) : acc \in {batch_loop(batch_init, sentences_of(text))} }
        : TRUE

\* app.py:150  batch = batch.strip() + '.'
final_batch(batch) == strip(batch) \o <<".">>

(***************************************************************************)
(* Inputs of the batching specification: texts made of up to MaxPieces     *)
(* pieces joined by periods.  Every string is such a join; the pieces are  *)
(* chosen around the 150-character limit.                                  *)
(***************************************************************************)
Pieces ==
    { <<>>, <<" ">>, <<"H", "i">>, <<" ", "o", "k", " ">>,
      <<"H", "e", "l", "l", "o">>, <<" ", "W", "o", "r", "l", "d">>,
      Rep("a", 73), Rep("b", 74), Rep("c", 75),
      Rep("d", 147), Rep("e", 148), Rep("f", 149), Rep("g", 150) }

RECURSIVE join(_)
join(ps) ==
    IF Len(ps) = 0 THEN <<>>
    ELSE IF Len(ps) = 1 THEN ps[1]
    ELSE ps[1] \o <<".">> \o join(Tail(ps))

PieceSeqs == UNION {[1..n -> Pieces] : n \in 1..MaxPieces}

BatchInputs == {join(ps) : ps \in PieceSeqs}

BatchInit ==
    /\ b_text \in BatchInputs
    /\ b_sentences = <<>>
    /\ b_acc = batch_init
    /\ b_pc = "split"

\* app.py:133
BatchSplit ==
    /\ b_pc = "split"
    /\ b_sentences' = sentences_of(b_text)
    /\ b_pc' = "loop"
    /\ UNCHANGED <<b_text, b_acc, server_vars, http_vars, client_vars>>

\* app.py:136-142
BatchIterate ==
    /\ b_pc = "loop"
    /\ b_sentences # <<>>
    /\ b_acc' = batch_step(b_acc, Head(b_sentences))
    /\ b_sentences' = Tail(b_sentences)
    /\ UNCHANGED <<b_text, b_pc, server_vars, http_vars, client_vars>>

\* app.py:143-144
BatchFlush ==
    /\ b_pc = "loop"
    /\ b_sentences = <<>>
    /\ b_acc' = [batched |-> batch_flush(b_acc), current |-> b_acc.current]
    /\ b_pc' = "done"
    /\ UNCHANGED <<b_text, b_sentences, server_vars, http_vars, client_vars>>


BatchNext == BatchSplit \/ BatchIterate \/ BatchFlush

(***************************************************************************)
(* The Socket.IO server: inputs.                                           *)
(***************************************************************************)
Sids == {"s1"}

VOICE_AF == <<"a", "f">>
VOICE_BF == <<"b", "f">>
VOICE_ZZ == <<"z", "z">>

\* What the voices directory may hold (app.py:37-44): af.pt and bf.pt, or
\* bf.pt alone.
VoiceFiles == {VOICE_AF, VOICE_BF}
VoiceStores == {{VOICE_AF, VOICE_BF}, {VOICE_BF}}

\* A key of a request dict: present with a value, or absent.
Present(v) == [present |-> TRUE, value |-> v]
Absent == [present |-> FALSE, value |-> <<>>]

\* dict.get(key, default)
dict_get(entry, default) == IF entry.present THEN entry.value ELSE default

SetVoiceInputs == {Absent} \cup {Present(v) : v \in VoiceFiles \cup {VOICE_ZZ}}

TEXT_HELLO == <<" ", "H", "e", "l", "l", "o", ".", " ", "W", "o", "r", "l", "d", ".">>
TEXT_LONG == Rep("a", 260) \o <<".", " ">> \o Rep("b", 260) \o <<".">>

TtsInputs == {Absent, Present(<<>>), Present(<<" ", " ">>),
              Present(TEXT_HELLO), Present(TEXT_LONG)}

\* What scipy.io.wavfile.write may leave in the buffer, as the checks of
\* app.py:171-184 see it: the size, bytes 0-3 and bytes 8-11.
WavOutputs ==
    { [size |-> 44,   riff |-> "RIFF", wave |-> "WAVE"],
      [size |-> 43,   riff |-> "RIFF", wave |-> "WAVE"],
      [size |-> 44,   riff |-> "RIFX", wave |-> "WAVE"],
      [size |-> 44,   riff |-> "RIFF", wave |-> "AVI " ] }

\* The outcomes of generate(): it raises, or its audio is written as a WAV.
SynthOutcomes == {[raised |-> TRUE, wav |-> [size |-> 0, riff |-> "", wave |-> ""]]}
                 \cup {[raised |-> FALSE, wav |-> w] : w \in WavOutputs}

NoSession == [voice |-> <<>>, queue |-> <<>>, processing |-> FALSE]

Add(bag, x) == bag (+) SetToBag({x})
Remove(bag, x) == bag (-) SetToBag({x})

Threads(s) == BagCardinality(tts_threads[s]) + BagCardinality(workers[s])

\* The label of a step: the handler or the line range that ran, the session
\* it ran for and the input it was given.
Step(op, s, arg) == [op |-> op, sid |-> s, arg |-> arg]
NoStep == Step("init", "", <<>>)

Error(s, msg) == [event |-> "error", room |-> s, message |-> msg]

(***************************************************************************)
(* The history of the dequeues of a session.  A worker that dequeues a     *)
(* text takes a ticket; order lists the tickets of the texts that still    *)
(* have batches to process, oldest dequeue first (which is oldest enqueue  *)
(* first: Queue.get_nowait is atomic and the queue is FIFO).  overtaken    *)
(* holds the tickets of the texts for which a text dequeued later has      *)
(* already had an audio_chunk emitted.  The history is kept only in the    *)
(* specification that starts with it switched on (tracked).                *)
(***************************************************************************)
NoDequeued == [order |-> <<>>, overtaken |-> {}, tracked |-> FALSE]

Tickets(d) == {d.order[i] : i \in 1..Len(d.order)}

\* The smallest ticket no text in progress holds.
FreeTicket(d) ==
    CHOOSE t \in 1..(Len(d.order) + 1) :
        /\ t \notin Tickets(d)
        /\ \A u \in 1..(t - 1) : u \in Tickets(d)

\* The ticket of the text a worker dequeues: 0 when no history is kept.
Take(d) == IF d.tracked THEN FreeTicket(d) ELSE 0

\* The tickets dequeued before ticket t and still in progress.
Before(d, t) ==
    {d.order[i] : i \in {j \in 1..Len(d.order) :
                            \E k \in (j + 1)..Len(d.order) : d.order[k] = t}}

\* The text of ticket t has no batch left, or its worker has exited.
Leave(d, t) ==
    [d EXCEPT !.order = SelectSeq(@, LAMBDA x : x # t),
              !.overtaken = @ \ {t}]

\* The history after the worker w has ended the iteration for its first
\* batch.
Done(d, w) == IF Tail(w.batches) = <<>> THEN Leave(d, w.ticket) ELSE d

(***************************************************************************)
(* Init: the state after module load (app.py:23-60).                       *)
(***************************************************************************)
ServerInit ==
    /\ VOICES \in VoiceStores
    /\ conn = [s \in Sids |-> "new"]
    /\ active_sessions = {}
    /\ session = [s \in Sids |-> NoSession]
    /\ tts_threads = [s \in Sids |-> EmptyBag]
    /\ workers = [s \in Sids |-> EmptyBag]
    /\ emitted = <<>>
    /\ last = NoStep
    /\ dequeued = [s \in Sids |-> NoDequeued]

\* app.py:62-73
handle_connect(s) ==
    /\ last' = Step("handle_connect", s, <<>>)
    /\ conn[s] = "new"
    /\ conn' = [conn EXCEPT ![s] = "open"]
    /\ active_sessions' = active_sessions \cup {s}
    /\ session' = [session EXCEPT ![s] = [voice |-> DEFAULT_VOICE,
                                          queue |-> <<>>,
                                          processing |-> FALSE]]
    /\ emitted' = <<[event |-> "connection_test", room |-> s, status |-> "connected"]>>
    /\ UNCHANGED <<batch_vars, http_vars, client_vars, dequeued, VOICES, tts_threads, workers>>

\* handle_disconnect keeping the registry entry.
handle_disconnect_keep(s) ==
    /\ last' = Step("handle_disconnect", s, <<>>)
    /\ conn[s] \in {"open", "closed"}
    /\ conn' = [conn EXCEPT ![s] = "closed"]
    /\ emitted' = <<>>
    /\ UNCHANGED <<batch_vars, http_vars, client_vars, dequeued, VOICES, active_sessions, session,
                   tts_threads, workers>>

\* app.py:75-81.  The handler tolerates a sid with no entry (a repeated
\* disconnect notification).
handle_disconnect(s) ==
    /\ last' = Step("handle_disconnect", s, <<>>)
    /\ conn[s] \in {"open", "closed"}
    /\ conn' = [conn EXCEPT ![s] = "closed"]
    /\ active_sessions' = IF s \in active_sessions
                          THEN active_sessions \ {s}
                          ELSE active_sessions
    /\ emitted' = <<>>
    /\ UNCHANGED <<batch_vars, http_vars, client_vars, dequeued, VOICES, session, tts_threads, workers>>

\* handle_set_voice storing the voice before it is validated.
handle_set_voice_unchecked(s, data) ==
    /\ last' = Step("handle_set_voice", s, data)
    /\ conn[s] \in {"open", "closed"}
    /\ LET voice == dict_get(data, DEFAULT_VOICE)
       IN  /\ session' = IF s \in active_sessions
                         THEN [session EXCEPT ![s].voice = voice]
                         ELSE session
           /\ emitted' = IF voice \notin VOICES
                         THEN <<[event |-> "error", room |-> s,
                                 message |-> "Voice not found. Available voices",
                                 voices |-> VOICES]>>
                         ELSE IF s \in active_sessions
                         THEN <<[event |-> "voice_set", room |-> s, voice |-> voice]>>
                         ELSE <<>>
    /\ UNCHANGED <<batch_vars, http_vars, client_vars, dequeued, VOICES, conn, active_sessions,
                   tts_threads, workers>>

\* app.py:83-92.  An event dispatched before the disconnect may be handled
\* after it (conn[s] = "closed"): line 91 then raises KeyError.
handle_set_voice(s, data) ==
    /\ last' = Step("handle_set_voice", s, data)
    /\ conn[s] \in {"open", "closed"}
    /\ LET voice == dict_get(data, DEFAULT_VOICE)
       IN  IF voice \notin VOICES
           THEN /\ emitted' = <<[event |-> "error", room |-> s,
                                 message |-> "Voice not found. Available voices",
                                 voices |-> VOICES]>>
                /\ UNCHANGED session
           ELSE IF s \notin active_sessions
           THEN /\ emitted' = <<>>
                /\ UNCHANGED session
           ELSE /\ session' = [session EXCEPT ![s].voice = voice]
                /\ emitted' = <<[event |-> "voice_set", room |-> s, voice |-> voice]>>
    /\ UNCHANGED <<batch_vars, http_vars, client_vars, dequeued, VOICES, conn, active_sessions, tts_threads, workers>>

(***************************************************************************)
(* handle_tts, app.py:94-113.  Lines 97-108 (look the session up, strip    *)
(* the text, put it on the queue) are one step; the read of the processing *)
(* flag (111), its write (112) and the start of the thread (113) are steps *)
(* of their own, since other handler threads and the worker run between    *)
(* them.  A tts_threads entry is the position of one invocation.           *)
(***************************************************************************)
tts_text(data) == strip(dict_get(data, <<>>))

tts_accepts(s, data) == s \in active_sessions /\ tts_text(data) # <<>>

\* handle_tts putting the text on the queue before it is stripped and tested.
handle_tts_unstripped(s, data) ==
    /\ last' = Step("handle_tts", s, data)
    /\ conn[s] \in {"open", "closed"}
    /\ (s \in active_sessions /\ data.present) =>
           /\ Len(session[s].queue) < MaxQueue
           /\ Threads(s) < MaxThreads
    /\ IF s \notin active_sessions
       THEN /\ emitted' = <<Error(s, "Invalid session")>>
            /\ UNCHANGED <<session, tts_threads>>
       ELSE IF ~data.present
       THEN /\ emitted' = <<>>
            /\ UNCHANGED <<session, tts_threads>>
       ELSE /\ session' = [session EXCEPT ![s].queue = Append(@, data.value)]
            /\ tts_threads' = [tts_threads EXCEPT ![s] = Add(@, "check")]
            /\ emitted' = <<>>
    /\ UNCHANGED <<batch_vars, http_vars, client_vars, dequeued, VOICES, conn, active_sessions, workers>>

\* app.py:97-108
handle_tts(s, data) ==
    /\ last' = Step("handle_tts", s, data)
    /\ conn[s] \in {"open", "closed"}
    /\ tts_accepts(s, data) =>
           /\ Len(session[s].queue) < MaxQueue
           /\ Threads(s) < MaxThreads
    /\ IF s \notin active_sessions
       THEN /\ emitted' = <<Error(s, "Invalid session")>>
            /\ UNCHANGED <<session, tts_threads>>
       ELSE IF tts_text(data) = <<>>
       THEN /\ emitted' = <<>>
            /\ UNCHANGED <<session, tts_threads>>
       ELSE /\ session' = [session EXCEPT ![s].queue = Append(@, tts_text(data))]
            /\ tts_threads' = [tts_threads EXCEPT ![s] = Add(@, "check")]
            /\ emitted' = <<>>
    /\ UNCHANGED <<batch_vars, http_vars, client_vars, dequeued, VOICES, conn, active_sessions, workers>>

\* app.py:111  if not session['processing']
tts_check(s) ==
    /\ last' = Step("tts_check", s, <<>>)
    /\ BagIn("check", tts_threads[s])
    /\ tts_threads' = [tts_threads EXCEPT ![s] =
           IF session[s].processing
           THEN Remove(@, "check")
           ELSE Add(Remove(@, "check"), "set")]
    /\ emitted' = <<>>
    /\ UNCHANGED <<batch_vars, http_vars, client_vars, dequeued, VOICES, conn, active_sessions, session, workers>>

\* app.py:112  session['processing'] = True
tts_set(s) ==
    /\ last' = Step("tts_set", s, <<>>)
    /\ BagIn("set", tts_threads[s])
    /\ session' = [session EXCEPT ![s].processing = TRUE]
    /\ tts_threads' = [tts_threads EXCEPT ![s] = Add(Remove(@, "set"), "spawn")]
    /\ emitted' = <<>>
    /\ UNCHANGED <<batch_vars, http_vars, client_vars, dequeued, VOICES, conn, active_sessions, workers>>

\* A thread about to run process_queue(session_id): its position and its
\* locals text (126) and batched_sentences (134), and the arguments of the
\* generate() call it is making (158, 159).
NewWorker == [pc |-> "start", text |-> <<>>, batches |-> <<>>,
              voice |-> <<>>, lang |-> "", ticket |-> 0]

\* tts_spawn returning without starting the thread.
tts_spawn_none(s) ==
    /\ last' = Step("tts_spawn", s, <<>>)
    /\ BagIn("spawn", tts_threads[s])
    /\ tts_threads' = [tts_threads EXCEPT ![s] = Remove(@, "spawn")]
    /\ emitted' = <<>>
    /\ UNCHANGED <<batch_vars, http_vars, client_vars, dequeued, VOICES, conn, active_sessions,
                   session, workers>>

\* app.py:113  threading.Thread(target=process_queue, ...).start()
tts_spawn(s) ==
    /\ last' = Step("tts_spawn", s, <<>>)
    /\ BagIn("spawn", tts_threads[s])
    /\ tts_threads' = [tts_threads EXCEPT ![s] = Remove(@, "spawn")]
    /\ workers' = [workers EXCEPT ![s] = Add(@, NewWorker)]
    /\ emitted' = <<>>
    /\ UNCHANGED <<batch_vars, http_vars, client_vars, dequeued, VOICES, conn, active_sessions, session>>

(***************************************************************************)
(* process_queue, app.py:115-209, run by a worker thread.  A workers entry *)
(* is one thread: its position, the batches of the current text it has not *)
(* processed yet, and the voice it read at line 158.  The outer handler of *)
(* lines 204-207 catches nothing the loop body can raise and has no step.  *)
(***************************************************************************)
SetWorker(s, w, w2) ==
    workers' = [workers EXCEPT ![s] = Add(Remove(@, w), w2)]

EndWorker(s, w) ==
    workers' = [workers EXCEPT ![s] = Remove(@, w)]

\* The end of one iteration of the for loop (146): the next batch, or back
\* to the while loop (122) after the last one.
next_batch(w) ==
    [w EXCEPT !.pc = IF Tail(w.batches) = <<>> THEN "get" ELSE "check",
              !.batches = Tail(w.batches),
              !.voice = <<>>,
              !.lang = "",
              !.ticket = IF Tail(w.batches) = <<>> THEN 0 ELSE @]

\* app.py:117-119
process_start(s, w) ==
    /\ last' = Step("process_start", s, <<>>)
    /\ w.pc = "start"
    /\ IF s \notin active_sessions
       THEN EndWorker(s, w)
       ELSE SetWorker(s, w, [w EXCEPT !.pc = "get"])
    /\ emitted' = <<>>
    /\ UNCHANGED <<batch_vars, http_vars, client_vars, dequeued, VOICES, conn, active_sessions, session, tts_threads>>

\* app.py:122-127 and 133-144: get_nowait() either raises queue.Empty or
\* returns the oldest text, which is batched.
process_get(s, w) ==
    /\ last' = Step("process_get", s, <<>>)
    /\ w.pc = "get"
    /\ IF session[s].queue = <<>>
       THEN /\ SetWorker(s, w, [w EXCEPT !.pc = "empty"])
            /\ UNCHANGED <<session, dequeued>>
       ELSE \E text \in {Head(session[s].queue)} :
            \E batches \in {batched_sentences(text)} :
            LET ticket == IF batches = <<>> THEN 0 ELSE Take(dequeued[s])
            IN  /\ session' = [session EXCEPT ![s].queue = Tail(@)]
                /\ SetWorker(s, w, [w EXCEPT
                       !.pc = IF batches = <<>> THEN "get" ELSE "check",
                       !.text = text,
                       !.batches = batches,
                       !.ticket = ticket])
                /\ dequeued' = [dequeued EXCEPT ![s].order =
                       IF ticket = 0 THEN @ ELSE Append(@, ticket)]
    /\ emitted' = <<>>
    /\ UNCHANGED <<batch_vars, http_vars, client_vars, VOICES, conn, active_sessions, tts_threads>>

\* process_empty leaving the processing flag set.
process_empty_keep(s, w) ==
    /\ last' = Step("process_empty", s, <<>>)
    /\ w.pc = "empty"
    /\ EndWorker(s, w)
    /\ dequeued' = [dequeued EXCEPT ![s] = Leave(@, w.ticket)]
    /\ emitted' = <<>>
    /\ UNCHANGED <<batch_vars, http_vars, client_vars, VOICES, conn, active_sessions, session,
                   tts_threads>>

\* app.py:128-129 and 209: the handler of queue.Empty clears the flag and
\* the thread ends.
process_empty(s, w) ==
    /\ last' = Step("process_empty", s, <<>>)
    /\ w.pc = "empty"
    /\ session' = [session EXCEPT ![s].processing = FALSE]
    /\ EndWorker(s, w)
    /\ dequeued' = [dequeued EXCEPT ![s] = Leave(@, w.ticket)]
    /\ emitted' = <<>>
    /\ UNCHANGED <<batch_vars, http_vars, client_vars, VOICES, conn, active_sessions, tts_threads>>

\* process_check without the test of line 147.
process_check_always(s, w) ==
    /\ last' = Step("process_check", s, <<>>)
    /\ w.pc = "check"
    /\ SetWorker(s, w, [w EXCEPT !.pc = "voice"])
    /\ emitted' = <<>>
    /\ UNCHANGED <<batch_vars, http_vars, client_vars, dequeued, VOICES, conn, active_sessions,
                   session, tts_threads>>

\* app.py:146-148
process_check(s, w) ==
    /\ last' = Step("process_check", s, <<>>)
    /\ w.pc = "check"
    /\ IF s \notin active_sessions
       THEN /\ EndWorker(s, w)
            /\ dequeued' = [dequeued EXCEPT ![s] = Leave(@, w.ticket)]
       ELSE /\ SetWorker(s, w, [w EXCEPT !.pc = "voice"])
            /\ UNCHANGED dequeued
    /\ emitted' = <<>>
    /\ UNCHANGED <<batch_vars, http_vars, client_vars, VOICES, conn, active_sessions, session, tts_threads>>

\* app.py:158  VOICES[session['voice']]; a KeyError is caught at 198-202.
process_voice(s, w) ==
    /\ last' = Step("process_voice", s, <<>>)
    /\ w.pc = "voice"
    /\ IF session[s].voice \notin VOICES
       THEN /\ emitted' = <<Error(s, "Error generating audio: KeyError")>>
            /\ SetWorker(s, w, next_batch(w))
            /\ dequeued' = [dequeued EXCEPT ![s] = Done(@, w)]
       ELSE /\ emitted' = <<>>
            /\ SetWorker(s, w, [w EXCEPT !.pc = "lang",
                                         !.voice = session[s].voice])
            /\ UNCHANGED dequeued
    /\ UNCHANGED <<batch_vars, http_vars, client_vars, VOICES, conn, active_sessions, session, tts_threads>>

\* app.py:159  lang=session['voice'][0], the last argument evaluated: the
\* thread then enters generate(MODEL, batch, VOICES[voice], lang).
process_lang(s, w) ==
    /\ last' = Step("process_lang", s, <<>>)
    /\ w.pc = "lang"
    /\ SetWorker(s, w, [w EXCEPT !.pc = "synth",
                                 !.lang = Head(session[s].voice)])
    /\ emitted' = <<>>
    /\ UNCHANGED <<batch_vars, http_vars, client_vars, dequeued, VOICES, conn, active_sessions, session, tts_threads>>

\* wav_check without the check of bytes 8-11.
wav_check_no_wave(wav) ==
    IF wav.size < WAV_HEADER_LEN THEN "Error generating audio: WAV data too short"
    ELSE IF wav.riff # "RIFF" THEN "Error generating audio: Invalid WAV format"
    ELSE ""

\* app.py:171-184: the exception the checks raise, "" when they pass.
wav_check(wav) ==
    IF wav.size < WAV_HEADER_LEN THEN "Error generating audio: WAV data too short"
    ELSE IF wav.riff # "RIFF" THEN "Error generating audio: Invalid WAV format"
    ELSE IF wav.wave # "WAVE" THEN "Error generating audio: Invalid WAV format"
    ELSE ""

\* app.py:192-195 or 200-202: what the worker emits for a batch.
batch_events(s, batch, outcome) ==
    IF outcome.raised
    THEN <<Error(s, "Error generating audio: generate failed")>>
    ELSE IF wav_check(outcome.wav) # ""
    THEN <<Error(s, wav_check(outcome.wav))>>
    ELSE <<[event |-> "audio_chunk", room |-> s,
            audio |-> outcome.wav, text |-> batch]>>

\* after_synth leaving the loops, as if the exception reached line 204.
after_synth_abort(w) == [w EXCEPT !.pc = "empty", !.voice = <<>>, !.lang = ""]

\* app.py:146 and 198-202: the end of the iteration in which generate() was
\* called; the exception handler does not leave the for loop.
after_synth(w) == next_batch(w)

\* app.py:155-202: generate() returns or raises; the conversion to WAV, the
\* header checks and the emit of the audio chunk or of the error.
process_emit(s, w, outcome) ==
    /\ last' = Step("process_emit", s, outcome)
    /\ w.pc = "synth"
    /\ emitted' = batch_events(s, final_batch(Head(w.batches)), outcome)
    /\ SetWorker(s, w, after_synth(w))
    /\ dequeued' = [dequeued EXCEPT ![s] =
           IF emitted'[1].event = "audio_chunk"
           THEN Done([@ EXCEPT !.overtaken = @ \cup Before(dequeued[s], w.ticket)], w)
           ELSE Done(@, w)]
    /\ UNCHANGED <<batch_vars, http_vars, client_vars, VOICES, conn, active_sessions, session, tts_threads>>

process_queue(s, w) ==
    \/ process_start(s, w)
    \/ process_get(s, w)
    \/ process_empty(s, w)
    \/ process_check(s, w)
    \/ process_voice(s, w)
    \/ process_lang(s, w)
    \/ \E outcome \in SynthOutcomes : process_emit(s, w, outcome)

(***************************************************************************)
(* The Socket.IO server.                                                   *)
(***************************************************************************)
BatchOff ==
    /\ b_text = <<>>
    /\ b_sentences = <<>>
    /\ b_acc = batch_init
    /\ b_pc = "off"

HttpOff ==
    /\ http_req = <<>>
    /\ http_locals = <<>>
    /\ http_resp = <<>>
    /\ http_pc = "off"

\* No client object is modelled.
ClientOff ==
    /\ c_main = "off"
    /\ is_playing = FALSE
    /\ audio_queue = <<>>
    /\ player_pc = "none"
    /\ frames = 0
    /\ p_terminated = FALSE

Init == ServerInit /\ BatchOff /\ HttpOff /\ ClientOff

Next ==
    \E s \in Sids :
        \/ handle_connect(s)
        \/ handle_disconnect(s)
        \/ \E data \in SetVoiceInputs : handle_set_voice(s, data)
        \/ \E data \in TtsInputs : handle_tts(s, data)
        \/ tts_check(s)
        \/ tts_set(s)
        \/ tts_spawn(s)
        \/ \E w \in BagToSet(workers[s]) : process_queue(s, w)

Spec == Init /\ [][Next]_vars

\* The steps of the threads of session s: the handler threads past line 108
\* and the worker threads.  The interpreter schedules every runnable thread
\* again and again, and no step of these threads blocks: a thread that can
\* take a step eventually takes one.  The arrival of events (connect,
\* disconnect, set_voice, tts) is up to the clients and has no fairness.
ThreadStep(s) ==
    \/ tts_check(s)
    \/ tts_set(s)
    \/ tts_spawn(s)
    \/ \E w \in BagToSet(workers[s]) : process_queue(s, w)

FairSpec == Spec /\ \A s \in Sids : WF_vars(ThreadStep(s))

\* The server with the history of the dequeues switched on.
OrderInit ==
    /\ VOICES \in VoiceStores
    /\ conn = [s \in Sids |-> "new"]
    /\ active_sessions = {}
    /\ session = [s \in Sids |-> NoSession]
    /\ tts_threads = [s \in Sids |-> EmptyBag]
    /\ workers = [s \in Sids |-> EmptyBag]
    /\ emitted = <<>>
    /\ last = NoStep
    /\ dequeued = [s \in Sids |-> [NoDequeued EXCEPT !.tracked = TRUE]]
    /\ BatchOff
    /\ HttpOff
    /\ ClientOff

OrderSpec == OrderInit /\ [][Next]_vars

(***************************************************************************)
(* POST /tts, app.py:220-296.  voice_name is a local of text_to_speech     *)
(* (assigned at line 255), so reading it at line 239 before that           *)
(* assignment raises UnboundLocalError, which line 294 catches.            *)
(***************************************************************************)
HttpTexts == {Absent, Present(<<>>), Present(<<"H", "i">>),
              Present(Rep("a", 150)), Present(Rep("a", 151)),
              Present(Rep("a", 500)), Present(Rep("a", 501))}

HttpVoices == {Absent, Present(VOICE_AF), Present(VOICE_BF), Present(VOICE_ZZ)}

HttpRequests == [text : HttpTexts, voice : HttpVoices]

\* What generate() and scipy.io.wavfile.write may yield for the request:
\* generate raises, or the number of samples and the size of the WAV file.
HttpOutcomes ==
    { [raised |-> TRUE,  samples |-> 0,     file_size |-> 0],
      [raised |-> FALSE, samples |-> 0,     file_size |-> 44],
      [raised |-> FALSE, samples |-> 100,   file_size |-> 244],
      [raised |-> FALSE, samples |-> 22050, file_size |-> 44144] }

Json(status, error) == [status |-> status, mimetype |-> "application/json",
                        error |-> error]

HttpInit ==
    /\ http_req = <<>>
    /\ http_locals = <<>>
    /\ http_resp = <<>>
    /\ http_pc = "idle"

\* app.py:223-224  data = request.get_json(); text = data.get('text')
http_receive(data) ==
    /\ http_pc = "idle"
    /\ http_req' = data
    /\ http_locals' = [text |-> data.text, chunks |-> <<>>,
                        voice_name |-> Absent, calls |-> <<>>]
    /\ http_resp' = <<>>
    /\ http_pc' = "split"
    /\ last' = Step("http_receive", "", data)
    /\ UNCHANGED <<batch_vars, client_vars, dequeued, VOICES, conn, active_sessions, session,
                   tts_threads, workers, emitted>>

\* app.py:228  [text[i:i+CHUNK_SIZE] for i in range(0, len(text), CHUNK_SIZE)]
slices(text) ==
    [k \in 1..((Len(text) + CHUNK_SIZE - 1) \div CHUNK_SIZE) |->
        SubSeq(text, (k - 1) * CHUNK_SIZE + 1,
               IF k * CHUNK_SIZE < Len(text) THEN k * CHUNK_SIZE ELSE Len(text))]

\* app.py:227-230; len(None) raises TypeError, caught at 294-296.
http_split ==
    /\ http_pc = "split"
    /\ IF ~http_locals.text.present
       THEN /\ http_resp' = Json(500, "object of type 'NoneType' has no len()")
            /\ http_pc' = "answered"
            /\ UNCHANGED http_locals
       ELSE /\ http_locals' = [http_locals EXCEPT !.chunks =
                   IF Len(http_locals.text.value) > CHUNK_SIZE
                   THEN slices(http_locals.text.value)
                   ELSE <<http_locals.text.value>>]
            /\ http_pc' = "loop"
            /\ UNCHANGED http_resp
    /\ last' = Step("http_split", "", <<>>)
    /\ UNCHANGED <<batch_vars, client_vars, dequeued, http_req, VOICES, conn, active_sessions, session,
                   tts_threads, workers, emitted>>

\* app.py:245-292, reached when the loop of 234-242 raised nothing.
http_after_loop(data, text, outcome) ==
    IF Len(text) > MAX_TEXT_LENGTH
    THEN Json(400, "Text exceeds maximum length of 500 characters")
    ELSE LET voice_name == dict_get(data.voice, DEFAULT_VOICE)
         IN  IF text = <<>> THEN Json(400, "No text provided")
             ELSE IF voice_name \notin VOICES
             THEN Json(400, "Voice not found. Available voices")
             ELSE IF outcome.samples = 0
             THEN Json(500, "Failed to generate audio")
             ELSE IF outcome.file_size < MIN_FILE_SIZE
             THEN Json(500, "Generated audio file too small")
             ELSE [status |-> 200, mimetype |-> "audio/wav",
                   download_name |-> "speech.wav"]

\* app.py:234-242: the generate() calls made and the exception raised ("" when
\* none).  The arguments are evaluated before the call: an unbound
\* voice_name raises before generate() runs.
http_loop(locals, outcome) ==
    IF ~locals.voice_name.present
    THEN [calls |-> <<>>,
          raised |-> "local variable 'voice_name' referenced before assignment"]
    ELSE IF locals.voice_name.value \notin VOICES
    THEN [calls |-> <<>>, raised |-> "KeyError"]
    ELSE IF outcome.raised
    THEN [calls |-> <<[text |-> locals.chunks[1],
                       voice |-> locals.voice_name.value,
                       lang |-> Head(locals.voice_name.value)]>>,
          raised |-> "generate failed"]
    ELSE [calls |-> [k \in 1..Len(locals.chunks) |->
                        [text |-> locals.chunks[k],
                         voice |-> locals.voice_name.value,
                         lang |-> Head(locals.voice_name.value)]],
          raised |-> ""]

\* app.py:233-296
http_synthesize(outcome) ==
    /\ http_pc = "loop"
    /\ LET run == http_loop(http_locals, outcome)
       IN  /\ http_locals' = [http_locals EXCEPT !.calls = run.calls]
           /\ last' = Step("http_synthesize", "", outcome)
           /\ http_resp' = IF run.raised # ""
                           THEN Json(500, run.raised)
                           ELSE http_after_loop(http_req, http_locals.text.value,
                                                outcome)
    /\ http_pc' = "answered"
    /\ UNCHANGED <<batch_vars, client_vars, dequeued, http_req, VOICES, conn,
                   active_sessions, session, tts_threads, workers, emitted>>

text_to_speech ==
    \/ \E data \in HttpRequests : http_receive(data)
    \/ http_split
    \/ \E outcome \in HttpOutcomes : http_synthesize(outcome)

HttpSpecInit == ServerInit /\ BatchOff /\ HttpInit /\ ClientOff

HttpSpec == HttpSpecInit /\ [][text_to_speech]_vars

BatchSpecInit ==
    /\ VOICES = {}
    /\ conn = [s \in Sids |-> "new"]
    /\ active_sessions = {}
    /\ session = [s \in Sids |-> NoSession]
    /\ tts_threads = [s \in Sids |-> EmptyBag]
    /\ workers = [s \in Sids |-> EmptyBag]
    /\ emitted = <<>>
    /\ last = NoStep
    /\ dequeued = [s \in Sids |-> NoDequeued]
    /\ HttpOff
    /\ ClientOff
    /\ BatchInit

BatchSpec == BatchSpecInit /\ [][BatchNext]_vars

(***************************************************************************)
(* The client, src/tts_client.py: one TTSClient object, the main thread    *)
(* that calls connect() and disconnect() on it, the Socket.IO thread that  *)
(* delivers audio_chunk events, and the thread that connect() starts on    *)
(* audio_player_thread.  self.is_playing is shared by the main thread      *)
(* (38) and the player thread (73, 74, 93) without a lock.                 *)
(***************************************************************************)
\* What the queue holds: the decoded data of an audio_chunk, a WAV of some
\* blocks of 1024 frames or data wave.open() rejects.
AudioItems == { [ok |-> FALSE, blocks |-> 0],
                [ok |-> TRUE,  blocks |-> 1],
                [ok |-> TRUE,  blocks |-> 2] }

\* tts_client.py:11-25  the state after TTSClient()
ClientInit ==
    /\ c_main = "init"
    /\ is_playing = FALSE
    /\ audio_queue = <<>>
    /\ player_pc = "none"
    /\ frames = 0
    /\ p_terminated = FALSE

\* tts_client.py:27-34  connect(): sio.connect() returns and the player
\* thread is started, or it raises and line 34 prints the error.
connect(ok) ==
    /\ last' = Step("connect", "", ok)
    /\ c_main = "init"
    /\ c_main' = IF ok THEN "connected" ELSE "failed"
    /\ player_pc' = IF ok THEN "start" ELSE player_pc
    /\ UNCHANGED <<batch_vars, http_vars, is_playing, audio_queue, frames,
                   p_terminated, VOICES, conn, active_sessions, session,
                   tts_threads, workers, emitted, dequeued>>

\* tts_client.py:38  self.is_playing = False
disconnect_flag ==
    /\ last' = Step("disconnect_flag", "", <<>>)
    /\ c_main \in {"connected", "failed"}
    /\ c_main' = "disconnecting"
    /\ is_playing' = FALSE
    /\ UNCHANGED <<batch_vars, http_vars, audio_queue, player_pc, frames,
                   p_terminated, VOICES, conn, active_sessions, session,
                   tts_threads, workers, emitted, dequeued>>

\* tts_client.py:39-40  self.sio.disconnect(); self.p.terminate()
disconnect_close ==
    /\ last' = Step("disconnect_close", "", <<>>)
    /\ c_main = "disconnecting"
    /\ c_main' = "disconnected"
    /\ p_terminated' = TRUE
    /\ UNCHANGED <<batch_vars, http_vars, is_playing, audio_queue, player_pc,
                   frames, VOICES, conn, active_sessions, session,
                   tts_threads, workers, emitted, dequeued>>

\* tts_client.py:56-63  on_audio_chunk, while the connection is up
on_audio_chunk(item) ==
    /\ last' = Step("on_audio_chunk", "", item)
    /\ c_main \in {"connected", "disconnecting"}
    /\ Len(audio_queue) < MaxAudio
    /\ audio_queue' = Append(audio_queue, item)
    /\ UNCHANGED <<batch_vars, http_vars, c_main, is_playing, player_pc, frames,
                   p_terminated, VOICES, conn, active_sessions, session,
                   tts_threads, workers, emitted, dequeued>>

\* tts_client.py:73  self.is_playing = True, the first statement the new
\* thread runs.
player_start ==
    /\ last' = Step("player_start", "", <<>>)
    /\ player_pc = "start"
    /\ is_playing' = TRUE
    /\ player_pc' = "loop"
    /\ UNCHANGED <<batch_vars, http_vars, c_main, audio_queue, frames,
                   p_terminated, VOICES, conn, active_sessions, session,
                   tts_threads, workers, emitted, dequeued>>

\* tts_client.py:74  while self.is_playing
player_test ==
    /\ last' = Step("player_test", "", <<>>)
    /\ player_pc = "loop"
    /\ player_pc' = IF is_playing THEN "get" ELSE "done"
    /\ UNCHANGED <<batch_vars, http_vars, c_main, is_playing, audio_queue, frames,
                   p_terminated, VOICES, conn, active_sessions, session,
                   tts_threads, workers, emitted, dequeued>>

\* tts_client.py:77-92 and 100-103: get(timeout=1) raises queue.Empty after
\* a second (continue), or returns the oldest data; wave.open() raises on
\* bad data and self.p.open() raises once PyAudio is terminated (both
\* caught at 102); otherwise the first block is read (92).
player_get ==
    /\ last' = Step("player_get", "", <<>>)
    /\ player_pc = "get"
    /\ IF audio_queue = <<>>
       THEN /\ player_pc' = "loop"
            /\ UNCHANGED <<audio_queue, frames>>
       ELSE /\ audio_queue' = Tail(audio_queue)
            /\ IF Head(audio_queue).ok /\ ~p_terminated
               THEN /\ player_pc' = "play"
                    /\ frames' = Head(audio_queue).blocks
               ELSE /\ player_pc' = "loop"
                    /\ UNCHANGED frames
    /\ UNCHANGED <<batch_vars, http_vars, c_main, is_playing, p_terminated,
                   VOICES, conn, active_sessions, session,
                   tts_threads, workers, emitted, dequeued>>

\* tts_client.py:93-98: while data and self.is_playing: write a block and
\* read the next; stream.write() raises once PyAudio is terminated.
player_play ==
    /\ last' = Step("player_play", "", <<>>)
    /\ player_pc = "play"
    /\ IF frames > 0 /\ is_playing /\ ~p_terminated
       THEN /\ frames' = frames - 1
            /\ UNCHANGED player_pc
       ELSE /\ frames' = 0
            /\ player_pc' = "loop"
    /\ UNCHANGED <<batch_vars, http_vars, c_main, is_playing, audio_queue,
                   p_terminated, VOICES, conn, active_sessions, session,
                   tts_threads, workers, emitted, dequeued>>

\* tts_client.py:71-103
audio_player_thread ==
    \/ player_start
    \/ player_test
    \/ player_get
    \/ player_play

ClientNext ==
    \/ \E ok \in BOOLEAN : connect(ok)
    \/ disconnect_flag
    \/ disconnect_close
    \/ \E item \in AudioItems : on_audio_chunk(item)
    \/ audio_player_thread

ClientSpecInit ==
    /\ VOICES = {}
    /\ conn = [s \in Sids |-> "new"]
    /\ active_sessions = {}
    /\ session = [s \in Sids |-> NoSession]
    /\ tts_threads = [s \in Sids |-> EmptyBag]
    /\ workers = [s \in Sids |-> EmptyBag]
    /\ emitted = <<>>
    /\ last = NoStep
    /\ dequeued = [s \in Sids |-> NoDequeued]
    /\ BatchOff
    /\ HttpOff
    /\ ClientInit

\* The player thread is a running thread: when it can take a step
\* (get(timeout=1) returns or times out, a block is written) it takes one.
\* Nothing makes the main thread call disconnect() or the server send audio.
ClientSpec == ClientSpecInit /\ [][ClientNext]_vars /\ WF_vars(audio_player_thread)

(***************************************************************************)
(* Properties.                                                             *)
(***************************************************************************)
WorkersOf(s) == BagToSet(workers[s])

\* A worker inside the while loop of process_queue that has not yet found
\* the queue empty.
Draining(w) == w.pc \in {"get", "check", "voice", "lang", "synth"}

DrainingCount(s) ==
    LET ds == {w \in WorkersOf(s) : Draining(w)}
        RECURSIVE Sum(_)
        Sum(S) == IF S = {} THEN 0
                  ELSE LET w == CHOOSE x \in S : TRUE
                       IN  CopiesIn(w, workers[s]) + Sum(S \ {w})
    IN  Sum(ds)

\* C1: for every session, at most one worker thread is draining the
\* session's queue at any time.
C1_OneWorkerPerSession == \A s \in Sids : DrainingCount(s) <= 1

\* C2: a text accepted for a session that stays connected is dequeued
\* without a later tts event.  A finite run refutes it by reaching a live
\* session whose queue holds a text while no handle_tts invocation and no
\* worker thread of the session exists: nothing is left to dequeue it.
C2_QueuedTextHasAThread ==
    \A s \in active_sessions : session[s].queue # <<>> => Threads(s) > 0

\* C3: no synthesis call is made for a text longer than 500 characters:
\* no worker is inside generate() for a batch of such a text, and POST /tts
\* answers such a text with the length error having called generate() for
\* none of its chunks.
C3_NoSynthesisOfLongText ==
    /\ \A s \in Sids : \A w \in WorkersOf(s) :
           w.pc = "synth" => Len(w.text) <= MAX_TEXT_LENGTH
    /\ (http_pc = "answered" /\ http_req.text.present
            /\ Len(http_req.text.value) > MAX_TEXT_LENGTH)
           => /\ http_locals.calls = <<>>
              /\ http_resp = Json(400, "Text exceeds maximum length of 500 characters")

\* C4: a set_voice event naming a voice that is not in the Voice Store
\* changes no session state (voice, queue, flag, registry, threads) and
\* emits exactly one event, the error listing the valid voices.
C4_UnknownVoiceStep ==
    (last'.op = "handle_set_voice" /\ dict_get(last'.arg, DEFAULT_VOICE) \notin VOICES)
        => /\ UNCHANGED <<session, active_sessions, conn, tts_threads, workers, VOICES>>
           /\ Len(emitted') = 1
           /\ emitted'[1].event = "error"
           /\ emitted'[1].room = last'.sid
           /\ emitted'[1].voices = VOICES

\* C4: every set_voice step whose voice is not in the Voice Store leaves
\* the session's voice and all other server state unchanged and emits
\* exactly one error event listing the available voices.
C4_UnknownVoiceChangesNothing == [][C4_UnknownVoiceStep]_vars

C4_Witness ==
    /\ last.op = "handle_set_voice"
    /\ dict_get(last.arg, DEFAULT_VOICE) \notin VOICES
    /\ last.sid \in active_sessions
    /\ session[last.sid].processing
    /\ session[last.sid].voice \in VOICES

\* The sentences of a sequence of batches, read in batch order.
RECURSIVE sentences_in(_)
sentences_in(batches) ==
    IF batches = <<>> THEN <<>>
    ELSE sentences_of(Head(batches)) \o sentences_in(Tail(batches))

finals(batches) == [i \in 1..Len(batches) |-> final_batch(batches[i])]

\* C5: the sentences of the batches, read in batch order, are the non-empty
\* trimmed sentences of the text in their order (during the loop: those
\* batched so far, then the current batch, then the sentences not yet
\* visited), and no batch is empty; the same holds of the batches as they
\* are handed to generate() (app.py:150).
C5_BatchesKeepSentences ==
    /\ b_pc = "loop" =>
           sentences_in(b_acc.batched) \o sentences_of(b_acc.current) \o b_sentences
               = sentences_of(b_text)
    /\ b_pc = "done" =>
           /\ sentences_in(b_acc.batched) = sentences_of(b_text)
           /\ sentences_in(finals(b_acc.batched)) = sentences_of(b_text)
           /\ batched_sentences(b_text) = b_acc.batched
    /\ \A i \in 1..Len(b_acc.batched) :
           /\ b_acc.batched[i] # <<>>
           /\ sentences_of(b_acc.batched[i]) # <<>>

C5_Witness ==
    /\ b_pc = "done"
    /\ Len(b_acc.batched) >= 2
    /\ Len(sentences_of(b_acc.batched[1])) >= 2
    /\ sentences_of(b_text) # split(b_text)

\* The requests C6 is about: a text of 1 to 500 characters and a voice of
\* the Voice Store (the default one when the request names none).
HttpValidRequest ==
    /\ http_req.text.present
    /\ http_req.text.value # <<>>
    /\ Len(http_req.text.value) <= MAX_TEXT_LENGTH
    /\ dict_get(http_req.voice, DEFAULT_VOICE) \in VOICES

\* C6: a valid POST /tts request is answered with the audio/wav attachment
\* unless synthesis failed (generate raised, or yielded no audio or a file
\* under 1024 bytes).
C6_ValidRequestGetsAudio ==
    (http_pc = "answered" /\ HttpValidRequest) =>
        \/ http_resp.status = 200 /\ http_resp.mimetype = "audio/wav"
        \/ /\ last.op = "http_synthesize"
           /\ \/ last.arg.raised
              \/ last.arg.samples = 0
              \/ last.arg.file_size < MIN_FILE_SIZE

\* C7: a POST /tts request whose text is missing or empty, or whose voice is
\* not in the Voice Store, is answered with status 400 and no generate()
\* call is made for it.
C7_InvalidRequestGets400 ==
    (/\ http_pc = "answered"
     /\ \/ ~http_req.text.present
        \/ http_req.text.value = <<>>
        \/ dict_get(http_req.voice, DEFAULT_VOICE) \notin VOICES)
        => /\ http_resp.status = 400
           /\ http_resp.mimetype = "application/json"
           /\ http_locals.calls = <<>>

FreshSession == [voice |-> DEFAULT_VOICE, queue |-> <<>>, processing |-> FALSE]

\* C8, in every state: the registry holds an entry exactly for the
\* connections that are open; the entry a connect just created has the
\* default voice, an empty queue and a clear flag; the entry of a
\* connection that just disconnected is gone.
C8_RegistryState ==
    /\ active_sessions = {s \in Sids : conn[s] = "open"}
    /\ last.op = "handle_connect" =>
           /\ last.sid \in active_sessions
           /\ session[last.sid] = FreshSession
    /\ last.op = "handle_disconnect" => last.sid \notin active_sessions

\* C8, in every step: connect and disconnect touch no entry but their own,
\* and a disconnect for a connection with no entry changes nothing.
C8_RegistryStep ==
    /\ last'.op = "handle_connect" =>
           /\ active_sessions' = active_sessions \cup {last'.sid}
           /\ \A s \in Sids \ {last'.sid} : session'[s] = session[s]
    /\ last'.op = "handle_disconnect" =>
           /\ active_sessions' = active_sessions \ {last'.sid}
           /\ UNCHANGED <<session, tts_threads, workers, VOICES>>
    /\ (last'.op = "handle_disconnect" /\ last'.sid \notin active_sessions) =>
           UNCHANGED <<active_sessions, conn, session, tts_threads, workers, VOICES>>
    /\ last'.op \notin {"handle_connect", "handle_disconnect"} =>
           UNCHANGED active_sessions

\* C8: the registry holds exactly the open connections in every state, and
\* only connect and disconnect steps change it (a disconnect of a session
\* with no entry changes nothing).
C8_RegistryTracksConnections == []C8_RegistryState /\ [][C8_RegistryStep]_vars

C8_Witness ==
    /\ last.op = "handle_disconnect"
    /\ conn[last.sid] = "closed"
    /\ last.sid \notin active_sessions
    /\ session[last.sid].queue # <<>>
    /\ workers[last.sid] # EmptyBag

\* The wav the header checks of the worker accept.
ValidWav(wav) == wav.size >= 44 /\ wav.riff = "RIFF" /\ wav.wave = "WAVE"

\* The step is the end of a failed synthesis of session s: generate()
\* raised, the WAV failed a check, or the voice lookup raised KeyError.
SynthesisFails(s) ==
    /\ last'.sid = s
    /\ \/ /\ last'.op = "process_emit"
          /\ last'.arg.raised \/ ~ValidWav(last'.arg.wav)
       \/ /\ last'.op = "process_voice"
          /\ session[s].voice \notin VOICES

\* C9: the step that ends a failed synthesis emits exactly one event, an
\* error to the session, and no audio_chunk; the worker that ran it goes on
\* with the remaining batches of its text, or with the queue after the last
\* batch; the queue, the registry and the other threads are untouched.  The
\* worker that finds the queue empty clears the processing flag.
C9_FailedBatchStep ==
    /\ \A s \in Sids : SynthesisFails(s) =>
           /\ Len(emitted') = 1
           /\ emitted'[1].event = "error"
           /\ emitted'[1].room = s
           /\ UNCHANGED <<active_sessions, session, tts_threads>>
           /\ \E w \in WorkersOf(s) :
                  /\ w.pc \in {"voice", "synth"}
                  /\ w.batches # <<>>
                  /\ workers' = [workers EXCEPT ![s] = Add(Remove(@, w),
                         [pc |-> IF Len(w.batches) > 1 THEN "check" ELSE "get",
                          text |-> w.text,
                          batches |-> Tail(w.batches),
                          voice |-> <<>>,
                          lang |-> "",
                          ticket |-> IF Len(w.batches) > 1 THEN w.ticket ELSE 0])]
    /\ last'.op = "process_empty" => ~session'[last'.sid].processing

\* C9: every step that ends a failed synthesis of a batch emits exactly one
\* error event and leaves the worker running with the next batch or the
\* queue; the worker clears the processing flag once the queue is empty.
C9_WorkerSurvivesFailedBatch == [][C9_FailedBatchStep]_vars

C9_Witness ==
    /\ last.op = "process_emit"
    /\ last.arg.raised
    /\ last.sid \in active_sessions
    /\ session[last.sid].queue # <<>>
    /\ \E w \in WorkersOf(last.sid) : w.pc = "check" /\ w.batches # <<>>

\* C10: every audio_chunk event carries WAV data of at least 44 bytes with
\* RIFF at bytes 0-3 and WAVE at bytes 8-11; a synthesized batch whose WAV
\* data fails one of these checks produces one error event and no
\* audio_chunk event.
C10_AudioChunksAreWav ==
    /\ \A i \in 1..Len(emitted) :
           emitted[i].event = "audio_chunk" => ValidWav(emitted[i].audio)
    /\ (last.op = "process_emit" /\ ~last.arg.raised /\ ~ValidWav(last.arg.wav)) =>
           /\ Len(emitted) = 1
           /\ emitted[1].event = "error"
           /\ emitted[1].room = last.sid
    /\ (last.op = "process_emit" /\ ~last.arg.raised /\ ValidWav(last.arg.wav)) =>
           /\ Len(emitted) = 1
           /\ emitted[1].event = "audio_chunk"
           /\ emitted[1].audio = last.arg.wav

C10_Witness ==
    /\ last.op = "process_emit"
    /\ Len(emitted) = 1
    /\ emitted[1].event = "audio_chunk"
    /\ emitted[1].text = final_batch(Rep("b", 260) \o <<".", " ">>)

\* The sentences in order, each followed by the separator of app.py:138.
RECURSIVE with_separators(_)
with_separators(sentences) ==
    IF sentences = <<>> THEN <<>>
    ELSE Head(sentences) \o <<".", " ">> \o with_separators(Tail(sentences))

\* C11 as stated: every text the tts handler accepts whose sentences with
\* their separators total fewer than 150 characters yields exactly one
\* batch, the sentences in order each followed by ". ".
C11_ShortTextIsOneBatch ==
    (/\ b_pc = "done"
     /\ strip(b_text) # <<>>
     /\ Len(with_separators(sentences_of(b_text))) < BATCH_LIMIT)
        => b_acc.batched = <<with_separators(sentences_of(b_text))>>

\* C11: every text with at least one sentence whose sentences with their
\* separators total fewer than 150 characters yields exactly one batch, the
\* sentences in order each followed by ". "; a text with no sentence (only
\* periods and whitespace) yields no batch.
C11_ShortSentencesAreOneBatch ==
    (/\ b_pc = "done"
     /\ Len(with_separators(sentences_of(b_text))) < BATCH_LIMIT)
        => /\ sentences_of(b_text) # <<>> =>
                  b_acc.batched = <<with_separators(sentences_of(b_text))>>
           /\ sentences_of(b_text) = <<>> => b_acc.batched = <<>>

C11_Witness ==
    /\ b_pc = "done"
    /\ b_text = <<"H", "e", "l", "l", "o", ".", " ", "W", "o", "r", "l", "d", ".">>
    /\ b_acc.batched = << <<"H", "e", "l", "l", "o", ".", " ",
                            "W", "o", "r", "l", "d", ".", " ">> >>

\* C12: every batch holding two or more sentences is shorter than 150
\* characters, separators included.
C12_MultiSentenceBatchUnderLimit ==
    \A i \in 1..Len(b_acc.batched) :
        Len(sentences_of(b_acc.batched[i])) >= 2 =>
            Len(b_acc.batched[i]) < BATCH_LIMIT

\* C13: an audio_chunk is never emitted for a text after an audio_chunk of
\* a text of the same session that was enqueued (hence dequeued) later:
\* the worker that emits an audio_chunk holds a text that no later text
\* has overtaken.
C13_AudioInEnqueueOrderStep ==
    \A s \in Sids : \A w \in WorkersOf(s) :
        (/\ last'.op = "process_emit"
         /\ last'.sid = s
         /\ w.pc = "synth"
         /\ workers' = [workers EXCEPT ![s] = Add(Remove(@, w), after_synth(w))]
         /\ emitted'[1].event = "audio_chunk")
            => w.ticket \notin dequeued[s].overtaken

\* C13: in every step, the audio_chunk events of a session are emitted in
\* the order in which its texts were enqueued: no text gets audio after a
\* text enqueued later has had audio.
C13_AudioInEnqueueOrder == [][C13_AudioInEnqueueOrderStep]_vars

\* No thread of any session is left and every live session has its flag
\* clear.
AllIdle ==
    \A s \in Sids :
        /\ workers[s] = EmptyBag
        /\ tts_threads[s] = EmptyBag
        /\ s \in active_sessions => ~session[s].processing

\* A tts event has just been accepted for the idle live session s.
TtsWhileIdle(s) ==
    /\ last.op = "handle_tts"
    /\ last.sid = s
    /\ s \in active_sessions
    /\ ~session[s].processing
    /\ workers[s] = EmptyBag
    /\ tts_threads[s] = SetToBag({"check"})

\* C14: if from some point on no tts event arrives, then from some point on
\* every worker and handler thread has exited and every live session has
\* its processing flag clear; and a tts event accepted for an idle session
\* leads to a worker thread for that session.
C14_WorkersExitAndRespawn ==
    /\ (<>[][last'.op # "handle_tts"]_vars) => <>[]AllIdle
    /\ \A s \in Sids : TtsWhileIdle(s) ~> (workers[s] # EmptyBag)

C14_Witness ==
    /\ last.op = "process_empty"
    /\ last.sid \in active_sessions
    /\ AllIdle
    /\ dequeued[last.sid].order = <<>>
    /\ session[last.sid].queue = <<>>

\* C15: the selected voice of every live session is a voice of the Voice
\* Store.
C15_SessionVoiceInStore ==
    \A s \in active_sessions : session[s].voice \in VOICES

\* The tts event with this data is rejected for session s: the connection
\* has no session entry, or the text is missing or empty once stripped.
TtsRejected(s, data) ==
    \/ s \notin active_sessions
    \/ ~data.present
    \/ \A i \in 1..Len(data.value) : data.value[i] \in Whitespace

\* C16: a rejected tts event changes nothing: no registry entry is created
\* or removed, the voice, queue and flag of every session, the handler
\* threads and the workers are unchanged; with no session entry the one
\* event emitted is the error 'Invalid session', with an entry and no text
\* nothing is emitted.
C16_RejectedTtsStep ==
    (last'.op = "handle_tts" /\ TtsRejected(last'.sid, last'.arg)) =>
        /\ UNCHANGED <<active_sessions, session, tts_threads, workers, conn, VOICES>>
        /\ last'.sid \notin active_sessions =>
               emitted' = <<Error(last'.sid, "Invalid session")>>
        /\ last'.sid \in active_sessions => emitted' = <<>>

\* C16: every tts step that is rejected (no session entry, or a text that
\* is missing, empty or whitespace-only) leaves the registry, the sessions
\* and the threads unchanged and emits 'Invalid session' exactly when the
\* connection has no session entry.
C16_RejectedTtsChangesNothing == [][C16_RejectedTtsStep]_vars

C16_Witness ==
    /\ last.op = "handle_tts"
    /\ last.arg = Present(<<" ", " ">>)
    /\ last.sid \in active_sessions
    /\ session[last.sid].processing
    /\ session[last.sid].queue # <<>>
    /\ emitted = <<>>

\* The workers of s that are past the check of line 147 for their batch:
\* evaluating the arguments of generate() or inside it.
Synthesizing(s) ==
    LET ws == {w \in WorkersOf(s) : w.pc \in {"voice", "lang", "synth"}}
        RECURSIVE Sum(_)
        Sum(S) == IF S = {} THEN 0
                  ELSE LET w == CHOOSE x \in S : TRUE
                       IN  CopiesIn(w, workers[s]) + Sum(S \ {w})
    IN  Sum(ws)

\* C17, in every step: once a session has been removed it stays removed;
\* while it is removed no worker of it passes a check, so the number of its
\* workers that are about to call generate() or inside it never grows; the
\* worker that runs the check exits at it, emitting nothing; and an
\* audio_chunk is emitted for it only by a worker that had passed its
\* check.
C17_RemovedSessionStep ==
    \A s \in Sids :
        (conn[s] = "closed" /\ s \notin active_sessions) =>
            /\ s \notin active_sessions'
            /\ Synthesizing(s)' <= Synthesizing(s)
            /\ (last'.op = "process_check" /\ last'.sid = s) =>
                   /\ BagCardinality(workers'[s]) = BagCardinality(workers[s]) - 1
                   /\ Synthesizing(s)' = Synthesizing(s)
                   /\ emitted' = <<>>
            /\ (last'.sid = s /\ emitted' # <<>> /\ emitted'[1].event = "audio_chunk") =>
                   /\ last'.op = "process_emit"
                   /\ Synthesizing(s)' = Synthesizing(s) - 1

\* C17: after the disconnect of a session, a worker of that session that
\* reaches the registry check exits there and starts no synthesis call;
\* only the calls that had passed their check complete.
C17_NoSynthesisAfterDisconnect == [][C17_RemovedSessionStep]_vars

C17_Witness ==
    /\ last.op = "process_check"
    /\ last.sid \notin active_sessions
    /\ conn[last.sid] = "closed"
    /\ BagCardinality(workers[last.sid]) = 1
    /\ \E w \in WorkersOf(last.sid) : w.pc = "synth"

C19_VoiceAndLangAgree ==
    \A s \in Sids : \A w \in WorkersOf(s) :
        w.pc = "synth" => w.lang = Head(w.voice)

\* C20: once disconnect() has been called, the player thread eventually
\* is not running: it has left its loop, or was never started.
C20_PlayerStopsAfterDisconnect ==
    (c_main \in {"disconnecting", "disconnected"}) ~> (player_pc \in {"none", "done"})

=============================================================================
